---------------------------- MODULE Spec2Model ----------------------------
(***************************************************************************)
(* Model of src/server.py: the AnkiConnect transport (ankiconnect_request),*)
(* the HTML highlighter (apply_highlight) and the four MCP tools           *)
(* (add_anki_card, list_anki_decks, list_anki_models, get_anki_info).      *)
(*                                                                         *)
(* Python str values are sequences of characters.  A character is a        *)
(* one-character TLA+ string; a non-ASCII character is written by its code *)
(* point, "U+732B".  Values whose Python type varies (None or a list, an   *)
(* int or the string "unknown") are tagged records [t |-> ..., v |-> ...]. *)
(***************************************************************************)
EXTENDS Integers, Sequences, FiniteSets, TLC

VARIABLES
  environ,          \* os.environ of the server process
  ANKICONNECT_URL,  \* module global set once at import (server.py:97)
  phase,            \* "idle": waiting for a call; "returned": a call has returned
  tool,             \* name of the function last called
  args,             \* its arguments
  calls,            \* the remote calls it issued, in order, with their outcomes
  result            \* the value it returned

vars == <<environ, ANKICONNECT_URL, phase, tool, args, calls, result>>

(***************************** Python values *******************************)
None == [t |-> "None"]
PyList(s) == [t |-> "list", v |-> s]
PyInt(n) == [t |-> "int", v |-> n]
PyStr(s) == [t |-> "str", v |-> s]
PyDict(d) == [t |-> "dict", v |-> d]

\* bool(x) for the values above
Truthy(x) ==
  CASE x.t = "None" -> FALSE
    [] x.t = "list" -> x.v # <<>>
    [] x.t = "str"  -> x.v # <<>>
    [] x.t = "int"  -> x.v # 0
    [] x.t = "dict" -> DOMAIN x.v # {}

(******************************* Characters ********************************)
\* The characters with code points 0 to 255, in code order: chr(n) is the
\* entry n + 1.  A printable ASCII character stands for itself; the backslash,
\* the backquote, the control characters and the characters above 126 are
\* written by their code points.
CharTable ==
  <<
    "U+0000", "U+0001", "U+0002", "U+0003", "U+0004", "U+0005", "U+0006", "U+0007", "U+0008",
    "U+0009", "U+000A", "U+000B", "U+000C", "U+000D", "U+000E", "U+000F", "U+0010", "U+0011",
    "U+0012", "U+0013", "U+0014", "U+0015", "U+0016", "U+0017", "U+0018", "U+0019", "U+001A",
    "U+001B", "U+001C", "U+001D", "U+001E", "U+001F", " ", "!", "\"", "#", "$", "%", "&", "'",
    "(", ")", "*", "+", ",", "-", ".", "/", "0", "1", "2", "3", "4", "5", "6", "7", "8", "9",
    ":", ";", "<", "=", ">", "?", "@", "A", "B", "C", "D", "E", "F", "G", "H", "I", "J", "K",
    "L", "M", "N", "O", "P", "Q", "R", "S", "T", "U", "V", "W", "X", "Y", "Z", "[", "U+005C",
    "]", "^", "_", "U+0060", "a", "b", "c", "d", "e", "f", "g", "h", "i", "j", "k", "l", "m",
    "n", "o", "p", "q", "r", "s", "t", "u", "v", "w", "x", "y", "z", "{", "|", "}", "~",
    "U+007F", "U+0080", "U+0081", "U+0082", "U+0083", "U+0084", "U+0085", "U+0086", "U+0087",
    "U+0088", "U+0089", "U+008A", "U+008B", "U+008C", "U+008D", "U+008E", "U+008F", "U+0090",
    "U+0091", "U+0092", "U+0093", "U+0094", "U+0095", "U+0096", "U+0097", "U+0098", "U+0099",
    "U+009A", "U+009B", "U+009C", "U+009D", "U+009E", "U+009F", "U+00A0", "U+00A1", "U+00A2",
    "U+00A3", "U+00A4", "U+00A5", "U+00A6", "U+00A7", "U+00A8", "U+00A9", "U+00AA", "U+00AB",
    "U+00AC", "U+00AD", "U+00AE", "U+00AF", "U+00B0", "U+00B1", "U+00B2", "U+00B3", "U+00B4",
    "U+00B5", "U+00B6", "U+00B7", "U+00B8", "U+00B9", "U+00BA", "U+00BB", "U+00BC", "U+00BD",
    "U+00BE", "U+00BF", "U+00C0", "U+00C1", "U+00C2", "U+00C3", "U+00C4", "U+00C5", "U+00C6",
    "U+00C7", "U+00C8", "U+00C9", "U+00CA", "U+00CB", "U+00CC", "U+00CD", "U+00CE", "U+00CF",
    "U+00D0", "U+00D1", "U+00D2", "U+00D3", "U+00D4", "U+00D5", "U+00D6", "U+00D7", "U+00D8",
    "U+00D9", "U+00DA", "U+00DB", "U+00DC", "U+00DD", "U+00DE", "U+00DF", "U+00E0", "U+00E1",
    "U+00E2", "U+00E3", "U+00E4", "U+00E5", "U+00E6", "U+00E7", "U+00E8", "U+00E9", "U+00EA",
    "U+00EB", "U+00EC", "U+00ED", "U+00EE", "U+00EF", "U+00F0", "U+00F1", "U+00F2", "U+00F3",
    "U+00F4", "U+00F5", "U+00F6", "U+00F7", "U+00F8", "U+00F9", "U+00FA", "U+00FB", "U+00FC",
    "U+00FD", "U+00FE", "U+00FF"
  >>

chr(n) == CharTable[n + 1]

Backslash == chr(92)
Newline == chr(10)

\* the two characters above 255 that are used (both CJK letters), with their code points
NonAsciiCodes == [c \in {"U+732B", "U+304C"} |-> IF c = "U+732B" THEN 29483 ELSE 12364]

\* the code point of every character
CodePoints ==
  [c \in {CharTable[i] : i \in 1..Len(CharTable)} \cup DOMAIN NonAsciiCodes |->
     IF c \in DOMAIN NonAsciiCodes THEN NonAsciiCodes[c]
     ELSE (CHOOSE i \in 1..Len(CharTable) : CharTable[i] = c) - 1]

ord(char) == CodePoints[char]

\* str.lower() / re.IGNORECASE folding of every character: A-Z and the
\* Latin-1 capitals (all of 192..222 but the multiplication sign) are 32 below
\* their small letters
LowerTable ==
  [c \in DOMAIN CodePoints |->
     IF \/ CodePoints[c] >= 65 /\ CodePoints[c] <= 90
        \/ CodePoints[c] >= 192 /\ CodePoints[c] <= 222 /\ CodePoints[c] # 215
     THEN chr(CodePoints[c] + 32) ELSE c]

LowerChar(char) == LowerTable[char]

\* \w of a str pattern: Unicode alphanumerics and the underscore
IsWordChar(char) ==
  LET o == ord(char)
  IN  \/ o >= 48 /\ o <= 57
      \/ o >= 65 /\ o <= 90
      \/ o >= 97 /\ o <= 122
      \/ o = 95
      \/ o \in {170, 178, 179, 181, 185, 186, 188, 189, 190}
      \/ o >= 192 /\ o <= 255 /\ o \notin {215, 247}
      \/ o > 255

\* str.isspace()
IsSpace(char) ==
  LET o == ord(char)
  IN  \/ o >= 9 /\ o <= 13
      \/ o >= 28 /\ o <= 32
      \/ o \in {133, 160}

\* str.isprintable(), as repr() uses it
IsPrintable(char) ==
  LET o == ord(char)
  IN  \/ o >= 32 /\ o <= 126
      \/ o >= 161 /\ o # 173

\* the character can start an identifier (str.isidentifier())
IsIdStart(char) ==
  LET o == ord(char)
  IN  \/ o >= 65 /\ o <= 90
      \/ o >= 97 /\ o <= 122
      \/ o = 95
      \/ o \in {170, 181, 186}
      \/ o >= 192 /\ o <= 255 /\ o \notin {215, 247}
      \/ o > 255

\* the character can continue an identifier
IsIdContinue(char) == IsIdStart(char) \/ (ord(char) >= 48 /\ ord(char) <= 57) \/ ord(char) = 183

IsDigit(char) == ord(char) >= 48 /\ ord(char) <= 57
IsOctDigit(char) == ord(char) >= 48 /\ ord(char) <= 55
IsAsciiLetter(char) ==
  \/ ord(char) >= 65 /\ ord(char) <= 90
  \/ ord(char) >= 97 /\ ord(char) <= 122

(******************************** Strings **********************************)
Lower(s) == [i \in 1..Len(s) |-> LowerChar(s[i])]

\* sub occurs in s starting at index i (1-based)
OccursAt(sub, s, i) ==
  /\ i >= 1
  /\ i + Len(sub) - 1 <= Len(s)
  /\ \A k \in 1..Len(sub) : s[i + k - 1] = sub[k]

\* `sub in s`
Contains(sub, s) == \E i \in 1..(Len(s) + 1) : OccursAt(sub, s, i)

Digits == <<"0", "1", "2", "3", "4", "5", "6", "7", "8", "9", "a", "b", "c", "d", "e", "f">>

RECURSIVE ToBase(_, _)
ToBase(n, base) ==
  IF n < base THEN <<Digits[n + 1]>> ELSE ToBase(n \div base, base) \o <<Digits[(n % base) + 1]>>

\* str(n), "%d" % n
IntToStr(n) == IF n < 0 THEN <<"-">> \o ToBase(-n, 10) ELSE ToBase(n, 10)

\* f"{n:02x}": at least two characters, the sign of a negative number being one
Hex02(n) ==
  IF n < 0 THEN <<"-">> \o ToBase(-n, 16)
  ELSE IF n < 16 THEN <<"0">> \o ToBase(n, 16)
  ELSE ToBase(n, 16)

Min(S) == CHOOSE x \in S : \A y \in S : x <= y
Max(S) == CHOOSE x \in S : \A y \in S : x >= y

\* the number of consecutive backslashes of s that end just before index i
BackslashesBefore(s, i) ==
  LET others == {k \in 1..(i - 1) : s[k] # Backslash}
  IN  IF others = {} THEN i - 1 ELSE i - 1 - Max(others)

(***************************** More str helpers ****************************)
\* x in lst
In(x, lst) == \E i \in 1..Len(lst) : lst[i] = x

RECURSIVE LStrip(_)
LStrip(s) == IF s # <<>> /\ IsSpace(Head(s)) THEN LStrip(Tail(s)) ELSE s

RECURSIVE RStrip(_)
RStrip(s) ==
  IF s # <<>> /\ IsSpace(s[Len(s)]) THEN RStrip(SubSeq(s, 1, Len(s) - 1)) ELSE s

\* s.strip()
Strip(s) == RStrip(LStrip(s))

\* s.split() from index i on, word being the characters of the current piece
RECURSIVE SplitFrom(_, _, _)
SplitFrom(s, i, word) ==
  IF i > Len(s) THEN (IF word = <<>> THEN <<>> ELSE <<word>>)
  ELSE IF IsSpace(s[i])
       THEN (IF word = <<>> THEN <<>> ELSE <<word>>) \o SplitFrom(s, i + 1, <<>>)
       ELSE SplitFrom(s, i + 1, Append(word, s[i]))

\* s.split()
Split(s) == SplitFrom(s, 1, <<>>)

\* repr() of one character of a str that is quoted with quote
ReprChar(char, quote) ==
  LET o == ord(char)
  IN  IF char = quote \/ char = Backslash THEN <<Backslash, char>>
      ELSE IF o = 9 THEN <<Backslash, "t">>
      ELSE IF o = 10 THEN <<Backslash, "n">>
      ELSE IF o = 13 THEN <<Backslash, "r">>
      ELSE IF ~IsPrintable(char) THEN <<Backslash, "x">> \o Hex02(o)
      ELSE <<char>>

\* the characters of repr(s) between the quotes, from index i on
RECURSIVE ReprBodyFrom(_, _, _)
ReprBodyFrom(s, quote, i) ==
  LET escaped == {k \in i..Len(s) : ReprChar(s[k], quote) # <<s[k]>>}
  IN  IF escaped = {} THEN SubSeq(s, i, Len(s))
      ELSE LET k == Min(escaped)
           IN  SubSeq(s, i, k - 1) \o ReprChar(s[k], quote) \o ReprBodyFrom(s, quote, k + 1)

\* repr(s) of a str: in single quotes, or in double quotes when s holds a
\* single quote and no double quote
ReprStr(s) ==
  LET quote == IF In("'", s) /\ ~In("\"", s) THEN "\"" ELSE "'"
  IN  <<quote>> \o ReprBodyFrom(s, quote, 1) \o <<quote>>

RECURSIVE ReprItems(_)
ReprItems(items) ==
  IF items = <<>> THEN <<>>
  ELSE IF Len(items) = 1 THEN ReprStr(items[1])
  ELSE ReprStr(items[1]) \o <<",", " ">> \o ReprItems(Tail(items))

\* str(lst) of a list of str
ReprList(items) == <<"[">> \o ReprItems(items) \o <<"]">>

\* str(x), as an f-string formats it: of None, an int, a str, a list of str and
\* the empty dict
Format(x) ==
  CASE x.t = "None" -> <<"N", "o", "n", "e">>
    [] x.t = "int" -> IntToStr(x.v)
    [] x.t = "str" -> x.v
    [] x.t = "list" -> ReprList(x.v)
    [] x.t = "dict" /\ DOMAIN x.v = {} -> <<"{", "}">>

(******************************* Literals *********************************)
\* 'Failed to connect to AnkiConnect'
FailedToConnect ==
  <<
    "F", "a", "i", "l", "e", "d", " ", "t", "o", " ", "c", "o", "n", "n", "e", "c", "t", " ",
    "t", "o", " ", "A", "n", "k", "i", "C", "o", "n", "n", "e", "c", "t"
  >>

\* '. Make sure Anki is running with AnkiConnect add-on enabled.'
MakeSureAnkiIsRunning ==
  <<
    ".", " ", "M", "a", "k", "e", " ", "s", "u", "r", "e", " ", "A", "n", "k", "i", " ", "i",
    "s", " ", "r", "u", "n", "n", "i", "n", "g", " ", "w", "i", "t", "h", " ", "A", "n", "k",
    "i", "C", "o", "n", "n", "e", "c", "t", " ", "a", "d", "d", "-", "o", "n", " ", "e", "n",
    "a", "b", "l", "e", "d", "."
  >>

\* 'AnkiConnect error: '
AnkiConnectErrorPrefix ==
  <<
    "A", "n", "k", "i", "C", "o", "n", "n", "e", "c", "t", " ", "e", "r", "r", "o", "r", ":",
    " "
  >>

\* 'AnkiConnect request failed: '
RequestFailedPrefix ==
  <<
    "A", "n", "k", "i", "C", "o", "n", "n", "e", "c", "t", " ", "r", "e", "q", "u", "e", "s",
    "t", " ", "f", "a", "i", "l", "e", "d", ":", " "
  >>

\* 'Front side text is required'
FrontRequired ==
  <<
    "F", "r", "o", "n", "t", " ", "s", "i", "d", "e", " ", "t", "e", "x", "t", " ", "i", "s",
    " ", "r", "e", "q", "u", "i", "r", "e", "d"
  >>

\* 'Back side text is required'
BackRequired ==
  <<
    "B", "a", "c", "k", " ", "s", "i", "d", "e", " ", "t", "e", "x", "t", " ", "i", "s", " ",
    "r", "e", "q", "u", "i", "r", "e", "d"
  >>

\* 'Failed to add note - no note ID returned'
NoNoteId ==
  <<
    "F", "a", "i", "l", "e", "d", " ", "t", "o", " ", "a", "d", "d", " ", "n", "o", "t", "e",
    " ", "-", " ", "n", "o", " ", "n", "o", "t", "e", " ", "I", "D", " ", "r", "e", "t", "u",
    "r", "n", "e", "d"
  >>

DuplicateWord == <<"d", "u", "p", "l", "i", "c", "a", "t", "e">>  \* 'duplicate'

\* 'Duplicate card detected - card already exists'
DuplicateCard ==
  <<
    "D", "u", "p", "l", "i", "c", "a", "t", "e", " ", "c", "a", "r", "d", " ", "d", "e", "t",
    "e", "c", "t", "e", "d", " ", "-", " ", "c", "a", "r", "d", " ", "a", "l", "r", "e", "a",
    "d", "y", " ", "e", "x", "i", "s", "t", "s"
  >>

\* 'Unknown error occurred while adding card'
UnknownAddError ==
  <<
    "U", "n", "k", "n", "o", "w", "n", " ", "e", "r", "r", "o", "r", " ", "o", "c", "c", "u",
    "r", "r", "e", "d", " ", "w", "h", "i", "l", "e", " ", "a", "d", "d", "i", "n", "g", " ",
    "c", "a", "r", "d"
  >>

\* 'Unknown error occurred while retrieving decks'
UnknownDecksError ==
  <<
    "U", "n", "k", "n", "o", "w", "n", " ", "e", "r", "r", "o", "r", " ", "o", "c", "c", "u",
    "r", "r", "e", "d", " ", "w", "h", "i", "l", "e", " ", "r", "e", "t", "r", "i", "e", "v",
    "i", "n", "g", " ", "d", "e", "c", "k", "s"
  >>

\* 'Unknown error occurred while retrieving models'
UnknownModelsError ==
  <<
    "U", "n", "k", "n", "o", "w", "n", " ", "e", "r", "r", "o", "r", " ", "o", "c", "c", "u",
    "r", "r", "e", "d", " ", "w", "h", "i", "l", "e", " ", "r", "e", "t", "r", "i", "e", "v",
    "i", "n", "g", " ", "m", "o", "d", "e", "l", "s"
  >>

\* 'Unknown error occurred while retrieving collection info'
UnknownInfoError ==
  <<
    "U", "n", "k", "n", "o", "w", "n", " ", "e", "r", "r", "o", "r", " ", "o", "c", "c", "u",
    "r", "r", "e", "d", " ", "w", "h", "i", "l", "e", " ", "r", "e", "t", "r", "i", "e", "v",
    "i", "n", "g", " ", "c", "o", "l", "l", "e", "c", "t", "i", "o", "n", " ", "i", "n", "f",
    "o"
  >>

Unknown == <<"u", "n", "k", "n", "o", "w", "n">>  \* 'unknown'

\* '<urlopen error [Errno 111] Connection refused>'
ConnectionRefused ==
  <<
    "<", "u", "r", "l", "o", "p", "e", "n", " ", "e", "r", "r", "o", "r", " ", "[", "E", "r",
    "r", "n", "o", " ", "1", "1", "1", "]", " ", "C", "o", "n", "n", "e", "c", "t", "i", "o",
    "n", " ", "r", "e", "f", "u", "s", "e", "d", ">"
  >>

\* 'Expecting value: line 1 column 1 (char 0)'
ExpectingValue ==
  <<
    "E", "x", "p", "e", "c", "t", "i", "n", "g", " ", "v", "a", "l", "u", "e", ":", " ", "l",
    "i", "n", "e", " ", "1", " ", "c", "o", "l", "u", "m", "n", " ", "1", " ", "(", "c", "h",
    "a", "r", " ", "0", ")"
  >>

\* 'cannot create note because it is a duplicate'
DuplicateNote ==
  <<
    "c", "a", "n", "n", "o", "t", " ", "c", "r", "e", "a", "t", "e", " ", "n", "o", "t", "e",
    " ", "b", "e", "c", "a", "u", "s", "e", " ", "i", "t", " ", "i", "s", " ", "a", " ", "d",
    "u", "p", "l", "i", "c", "a", "t", "e"
  >>

\* 'collection is not available'
CollectionUnavailable ==
  <<
    "c", "o", "l", "l", "e", "c", "t", "i", "o", "n", " ", "i", "s", " ", "n", "o", "t", " ",
    "a", "v", "a", "i", "l", "a", "b", "l", "e"
  >>

English == <<"E", "n", "g", "l", "i", "s", "h">>  \* 'English'

Basic == <<"B", "a", "s", "i", "c">>  \* 'Basic'

Cloze == <<"C", "l", "o", "z", "e">>  \* 'Cloze'

DeckB == <<"B">>  \* 'B'

ACat == <<"a", " ", "C", "a", "t">>  \* 'a Cat'

Cat_ == <<"c", "a", "t">>  \* 'cat'

Neko == <<"U+732B">>  \* 'U+732B'

TwoTags == <<" ", "t", "1", " ", " ", "t", "2", " ">>  \* ' t1  t2 '

(******************************** Transport ********************************)
\* dict.get(key, default)
Get(d, key, default) == IF key \in DOMAIN d THEN d[key] ELSE default

\* What urlopen and json.loads give for one request (server.py:119-122):
\*   [kind |-> "URLError", text |-> str(e)]      the endpoint is unreachable
\*   [kind |-> "Exception", text |-> str(e)]     any other failure (a body that is not JSON)
\*   [kind |-> "response", data |-> mapping]     the parsed JSON response
URLError(text) == [kind |-> "URLError", text |-> text]
OtherException(text) == [kind |-> "Exception", text |-> text]
Response(data) == [kind |-> "response", data |-> data]

\* the exception a call raises, by its message
Raise(message) == [ok |-> FALSE, exc |-> message]
\* the value a call returns
Returned(value) == [ok |-> TRUE, value |-> value]

\* f"Failed to connect to AnkiConnect at {ANKICONNECT_URL}. Make sure Anki is
\* running with AnkiConnect add-on enabled. Error: {e}"
ConnectFailureMessage(url, e) ==
  FailedToConnect \o <<" ", "a", "t", " ">> \o url \o MakeSureAnkiIsRunning
    \o <<" ", "E", "r", "r", "o", "r", ":", " ">> \o e

\* ankiconnect_request with its handlers in the wrong order: the general
\* handler takes the URLError too
ankiconnect_request_GeneralHandlerFirst(url, wire) ==
  CASE wire.kind \in {"URLError", "Exception"} -> Raise(RequestFailedPrefix \o wire.text)
    [] wire.kind = "response" ->
         IF Truthy(Get(wire.data, "error", None))
         THEN Raise(RequestFailedPrefix \o AnkiConnectErrorPrefix \o Format(wire.data.error))
         ELSE Returned(wire.data)

\* ankiconnect_request(action, params), wire being what the HTTP exchange gave.
\* The exception raised for an error field at line 126 is raised inside the
\* try block, so the handler at line 133 catches and re-wraps it.
ankiconnect_request(url, wire) ==
  CASE wire.kind = "URLError" -> Raise(ConnectFailureMessage(url, wire.text))
    [] wire.kind = "Exception" -> Raise(RequestFailedPrefix \o wire.text)
    [] wire.kind = "response" ->
         IF Truthy(Get(wire.data, "error", None))
         THEN Raise(RequestFailedPrefix \o AnkiConnectErrorPrefix \o Format(wire.data.error))
         ELSE Returned(wire.data)

\* os.environ.get('ANKICONNECT_API_KEY') (line 110)
ApiKey(os_environ) ==
  IF "ANKICONNECT_API_KEY" \in DOMAIN os_environ THEN PyStr(os_environ.ANKICONNECT_API_KEY)
  ELSE None

\* request_data of one call (lines 104-113; params is {} when none are
\* given), with what the exchange gave, as kept in `calls`
Call(api_key, action, params, wire) ==
  IF Truthy(api_key)
  THEN [action |-> action, version |-> 6, params |-> params, key |-> api_key.v,
        wire |-> wire]
  ELSE [action |-> action, version |-> 6, params |-> params, wire |-> wire]

(****************************** Highlighting *******************************)
\* '<span style="background-color: '
SpanOpenPrefix ==
  <<
    "<", "s", "p", "a", "n", " ", "s", "t", "y", "l", "e", "=", "\"", "b", "a", "c", "k", "g",
    "r", "o", "u", "n", "d", "-", "c", "o", "l", "o", "r", ":", " "
  >>

SpanOpenSuffix == <<"\"", ">">>  \* '">'

SpanClose == <<"<", "/", "s", "p", "a", "n", ">">>  \* '</span>'

DefaultColor == [Red |-> 255, Green |-> 255, Blue |-> 180]

\* any(ord(char) > 127 for char in word)
HasNonAscii(word) == \E k \in 1..Len(word) : ord(word[k]) > 127

\* Pattern without the \b ... \b of line 223
Pattern_NoBoundary(word) == [lit |-> word, wb |-> FALSE]

\* The compiled pattern: re.escape(word) matches word literally; wb says
\* whether it is enclosed in \b ... \b.
Pattern(word) == [lit |-> word, wb |-> ~HasNonAscii(word)]

\* \b at index i of s: between s[i-1] and s[i], exactly one is a word character
WordBoundary(s, i) ==
  LET before == i - 1 >= 1 /\ i - 1 <= Len(s) /\ IsWordChar(s[i - 1])
      after  == i >= 1 /\ i <= Len(s) /\ IsWordChar(s[i])
  IN  before # after

\* the pattern matches s at index i under re.IGNORECASE
MatchAt(pattern, s, i) ==
  /\ i + Len(pattern.lit) - 1 <= Len(s)
  /\ \A k \in 1..Len(pattern.lit) : LowerChar(s[i + k - 1]) = LowerChar(pattern.lit[k])
  /\ pattern.wb => WordBoundary(s, i) /\ WordBoundary(s, i + Len(pattern.lit))

(* The replacement template of re.sub, as re._parser.parse_template of       *)
(* Python 3.11 reads it.  Indices are 1-based here; the positions of the     *)
(* error messages are Python's 0-based ones.                                 *)

\* str(re.error(msg, pattern, pos)): the line and the column are added when the
\* pattern holds a newline
ReError(msg, pattern, pos) ==
  LET newlines == {k \in 1..Len(pattern) : pattern[k] = Newline}
      before == {k \in newlines : k <= pos}
      colno == IF before = {} THEN pos + 1 ELSE pos + 1 - Max(before)
      head == msg \o <<" ", "a", "t", " ", "p", "o", "s", "i", "t", "i", "o", "n", " ">> \o IntToStr(pos)
  IN  IF newlines = {} THEN head
      ELSE head \o <<" ", "(", "l", "i", "n", "e", " ">> \o IntToStr(Cardinality(before) + 1)
             \o <<",", " ", "c", "o", "l", "u", "m", "n", " ">> \o IntToStr(colno) \o <<")">>

\* the template ends in a backslash that escapes nothing
LoneEnd(s) ==
  /\ s # <<>>
  /\ s[Len(s)] = Backslash
  /\ BackslashesBefore(s, Len(s)) % 2 = 0

\* Tokenizer.__next steps onto the token at index n: it raises when that is
\* the backslash of LoneEnd
Stops(s, n) == LoneEnd(s) /\ n = Len(s)

EndError(s) ==
  Raise(ReError(<<"b", "a", "d", " ", "e", "s", "c", "a", "p", "e", " ", "(", "e", "n", "d", " ", "o", "f", " ", "p", "a", "t", "t", "e", "r", "n", ")">>, s, Len(s) - 1))

\* int(digits, 8)
RECURSIVE OctValue(_)
OctValue(digits) ==
  IF digits = <<>> THEN 0
  ELSE 8 * OctValue(SubSeq(digits, 1, Len(digits) - 1)) + (ord(digits[Len(digits)]) - 48)

\* what parse_template does with one token: it raises, adds a literal, or
\* adds a reference to group 0 (the pattern has no other group); next is the
\* index of the token after it
Literal(text, next) == [ok |-> TRUE, group |-> FALSE, text |-> text, next |-> next]
GroupZero(next) == [ok |-> TRUE, group |-> TRUE, text |-> <<>>, next |-> next]

InvalidGroupReference(index, s, pos) ==
  Raise(ReError(<<"i", "n", "v", "a", "l", "i", "d", " ", "g", "r", "o", "u", "p", " ", "r", "e", "f", "e", "r", "e", "n", "c", "e", " ">> \o index, s, pos))

\* \0, \0o, \0oo (lines of `elif c == "0"`)
OctalZero(s, i) ==
  LET n == i + 2
      one == n <= Len(s) /\ IsOctDigit(s[n])
      two == one /\ n + 1 <= Len(s) /\ IsOctDigit(s[n + 1])
  IN  IF ~one THEN Literal(<<chr(0)>>, n)
      ELSE IF Stops(s, n + 1) THEN EndError(s)
      ELSE IF ~two THEN Literal(<<chr(OctValue(<<s[n]>>) % 256)>>, n + 1)
      ELSE IF Stops(s, n + 2) THEN EndError(s)
      ELSE Literal(<<chr(OctValue(<<s[n], s[n + 1]>>) % 256)>>, n + 2)

\* \d, \dd, \ooo for a first digit 1..9 (lines of `elif c in DIGITS`)
DigitEscape(s, i) ==
  LET c == s[i + 1]
      n == i + 2
      two == n <= Len(s) /\ IsDigit(s[n])
      isoctal ==
        /\ two
        /\ IsOctDigit(c)
        /\ IsOctDigit(s[n])
        /\ n + 1 <= Len(s)
        /\ IsOctDigit(s[n + 1])
  IN  IF ~two THEN InvalidGroupReference(<<c>>, s, i)
      ELSE IF Stops(s, n + 1) THEN EndError(s)
      ELSE IF ~isoctal THEN InvalidGroupReference(<<c, s[n]>>, s, i)
      ELSE IF Stops(s, n + 2) THEN EndError(s)
      ELSE IF OctValue(<<c, s[n], s[n + 1]>>) > 255
      THEN Raise(ReError(<<"o", "c", "t", "a", "l", " ", "e", "s", "c", "a", "p", "e", " ", "v", "a", "l", "u", "e", " ">> \o SubSeq(s, i, i + 3)
                           \o <<" ", "o", "u", "t", "s", "i", "d", "e", " ", "o", "f", " ", "r", "a", "n", "g", "e", " ", "0", "-", "0", "o", "3", "7", "7">>, s, i - 1))
      ELSE Literal(<<chr(OctValue(<<c, s[n], s[n + 1]>>))>>, n + 2)

\* int() strips these characters from both ends of its argument
IsIntSpace(char) ==
  LET o == ord(char)
  IN  (o >= 9 /\ o <= 13) \/ o \in {32, 133, 160}

\* int(name): whether name is a decimal literal (blanks around it, a sign,
\* digits with single underscores between them), whether it is negative, and
\* its digits without leading zeros
IntLiteral(name) ==
  LET kept == {k \in 1..Len(name) : ~IsIntSpace(name[k])}
      \* the value of the digits without their underscores
      Decimal(plain) ==
        LET nonzero == {k \in 1..Len(plain) : plain[k] # "0"}
        IN  IF nonzero = {} THEN <<"0">> ELSE SubSeq(plain, Min(nonzero), Len(plain))
      \* the literal without its blanks, and what follows its sign
      Read(body, digits) ==
        IF /\ digits # <<>>
           /\ \A k \in 1..Len(digits) : IsDigit(digits[k]) \/ digits[k] = "_"
           /\ IsDigit(digits[1])
           /\ IsDigit(digits[Len(digits)])
           /\ \A k \in 1..(Len(digits) - 1) : ~(digits[k] = "_" /\ digits[k + 1] = "_")
        THEN [valid |-> TRUE,
              negative |-> body[1] = "-",
              decimal |-> Decimal(SelectSeq(digits, IsDigit))]
        ELSE [valid |-> FALSE]
      Signed(body) ==
        Read(body, IF body # <<>> /\ body[1] \in {"+", "-"} THEN Tail(body) ELSE body)
  IN  Signed(IF kept = {} THEN <<>> ELSE SubSeq(name, Min(kept), Max(kept)))

\* str.isidentifier()
IsIdentifier(name) ==
  /\ name # <<>>
  /\ IsIdStart(name[1])
  /\ \A k \in 2..Len(name) : IsIdContinue(name[k])

\* the name between \g< and >, ending before index k (lines of `if c == "g"`
\* after getuntil)
GroupName(s, name, k) ==
  IF IsIdentifier(name)
  THEN Raise(<<"u", "n", "k", "n", "o", "w", "n", " ", "g", "r", "o", "u", "p", " ", "n", "a", "m", "e", " ">> \o ReprStr(name))
  ELSE LET pos == k - Len(name) - 1
           Refer(index) ==
             IF ~index.valid \/ (index.negative /\ index.decimal # <<"0">>)
             THEN Raise(ReError(<<"b", "a", "d", " ", "c", "h", "a", "r", "a", "c", "t", "e", "r", " ", "i", "n", " ", "g", "r", "o", "u", "p", " ", "n", "a", "m", "e", " ">> \o ReprStr(name),
                                s, pos))
             ELSE IF index.decimal # <<"0">>
             THEN InvalidGroupReference(index.decimal, s, pos)
             ELSE GroupZero(k + 1)
       IN  Refer(IntLiteral(name))

\* \g<name> (lines of `if c == "g"`, with Tokenizer.getuntil)
GroupEscape(s, i) ==
  LET n == i + 2
      terminators ==
        {k \in (n + 1)..Len(s) : s[k] = ">" /\ BackslashesBefore(s, k) % 2 = 0}
  IN  IF ~(n <= Len(s) /\ s[n] = "<")
      THEN Raise(ReError(<<"m", "i", "s", "s", "i", "n", "g", " ", "<">>, s, n - 1))
      ELSE IF Stops(s, n + 1) THEN EndError(s)
      ELSE IF LoneEnd(s) /\ (terminators = {} \/ Min(terminators) = Len(s) - 1)
      THEN EndError(s)
      ELSE IF terminators = {}
      THEN IF n = Len(s)
           THEN Raise(ReError(<<"m", "i", "s", "s", "i", "n", "g", " ", "g", "r", "o", "u", "p", " ", "n", "a", "m", "e">>, s, Len(s)))
           ELSE Raise(ReError(<<"m", "i", "s", "s", "i", "n", "g", " ", ">", ",", " ", "u", "n", "t", "e", "r", "m", "i", "n", "a", "t", "e", "d", " ", "n", "a", "m", "e">>, s, n))
      ELSE LET k == Min(terminators)
           IN  IF k = n + 1
               THEN Raise(ReError(<<"m", "i", "s", "s", "i", "n", "g", " ", "g", "r", "o", "u", "p", " ", "n", "a", "m", "e">>, s, k - 1))
               ELSE GroupName(s, SubSeq(s, n + 1, k - 1), k)

\* the character an escape of ESCAPES stands for
EscapeCodes ==
  [c \in {"a", "b", "f", "n", "r", "t", "v", Backslash} |->
     CASE c = "a" -> 7 [] c = "b" -> 8 [] c = "f" -> 12 [] c = "n" -> 10
       [] c = "r" -> 13 [] c = "t" -> 9 [] c = "v" -> 11 [] c = Backslash -> 92]

\* the token of two characters at index i, the first being a backslash
Escape(s, i) ==
  LET c == s[i + 1]
  IN  CASE c = "g" -> GroupEscape(s, i)
        [] c = "0" -> OctalZero(s, i)
        [] IsDigit(c) /\ c # "0" -> DigitEscape(s, i)
        [] c \in DOMAIN EscapeCodes -> Literal(<<chr(EscapeCodes[c])>>, i + 2)
        [] IsAsciiLetter(c) /\ c # "g" /\ c \notin DOMAIN EscapeCodes ->
             Raise(ReError(<<"b", "a", "d", " ", "e", "s", "c", "a", "p", "e", " ">> \o <<Backslash, c>>, s, i - 1))
        [] OTHER -> Literal(<<Backslash, c>>, i + 2)

\* the loop of parse_template from the token at index i on: literals are the
\* texts before the group references met so far, literal the text after the
\* last of them
RECURSIVE ParseTemplateFrom(_, _, _, _)
ParseTemplateFrom(s, i, literals, literal) ==
  IF i > Len(s) THEN Returned(Append(literals, literal))
  ELSE IF s[i] # Backslash
  THEN LET slashes == {k \in i..Len(s) : s[k] = Backslash}
           j == IF slashes = {} THEN Len(s) + 1 ELSE Min(slashes)
       IN  IF Stops(s, j) THEN EndError(s)
           ELSE ParseTemplateFrom(s, j, literals, literal \o SubSeq(s, i, j - 1))
  ELSE IF Stops(s, i + 2) THEN EndError(s)
  ELSE LET Continue(step) ==
             IF ~step.ok THEN step
             ELSE IF step.group
             THEN ParseTemplateFrom(s, step.next, Append(literals, literal), <<>>)
             ELSE ParseTemplateFrom(s, step.next, literals, literal \o step.text)
       IN  Continue(Escape(s, i))

\* parse_template(repl): raises, or returns the literal texts that stand
\* around the references to group 0
parse_template(repl) ==
  IF Stops(repl, 1) THEN EndError(repl) ELSE ParseTemplateFrom(repl, 1, <<>>, <<>>)

\* expand_template: the literals joined by the matched text
RECURSIVE expand_template(_, _)
expand_template(literals, matched) ==
  IF Len(literals) = 1 THEN literals[1]
  ELSE literals[1] \o matched \o expand_template(Tail(literals), matched)

\* The substitution of re.sub from index i of s on: the text up to the
\* leftmost match at or after i, the expanded template, and the same again
\* after the match; an empty match is followed by the character it stands
\* before, and the search goes on after that character.
RECURSIVE ReSubFrom(_, _, _, _)
ReSubFrom(pattern, literals, s, i) ==
  LET matches == {j \in i..(Len(s) + 1) : MatchAt(pattern, s, j)}
  IN  IF matches = {} THEN SubSeq(s, i, Len(s))
      ELSE LET j == Min(matches)
               matched == SubSeq(s, j, j + Len(pattern.lit) - 1)
           IN  IF pattern.lit = <<>>
               THEN SubSeq(s, i, j - 1) \o expand_template(literals, matched)
                      \o (IF j <= Len(s) THEN <<s[j]>> ELSE <<>>)
                      \o ReSubFrom(pattern, literals, s, j + 1)
               ELSE SubSeq(s, i, j - 1) \o expand_template(literals, matched)
                      \o ReSubFrom(pattern, literals, s, j + Len(pattern.lit))

\* re.sub(pattern, replacement, s, flags=re.IGNORECASE): the template is
\* compiled before the search, so a bad template raises whatever s is
re_sub(pattern, replacement, s) ==
  LET Substitute(template) ==
        IF ~template.ok THEN template
        ELSE Returned(ReSubFrom(pattern, template.value, s, 1))
  IN  Substitute(parse_template(replacement))

\* f'<span style="background-color: {hex_color}">{word}</span>'
Replacement(hex_color, word) ==
  SpanOpenPrefix \o hex_color \o SpanOpenSuffix \o word \o SpanClose

\* the for loop of apply_highlight over highlight_words[k..]
RECURSIVE HighlightLoop(_, _, _, _)
HighlightLoop(highlighted_text, highlight_words, hex_color, k) ==
  IF k > Len(highlight_words) THEN Returned(highlighted_text)
  ELSE LET word == highlight_words[k]
           Continue(substituted) ==
             IF ~substituted.ok THEN substituted
             ELSE HighlightLoop(substituted.value, highlight_words, hex_color, k + 1)
       IN  Continue(re_sub(Pattern(word), Replacement(hex_color, word), highlighted_text))

\* lines 205-212: f"#{r:02x}{g:02x}{b:02x}" of the colour mapping (of int
\* values), or the KeyError of its first missing key
HexColor(color) ==
  LET c == IF color.t = "None" THEN DefaultColor ELSE color.v
  IN  IF "Red" \notin DOMAIN c THEN Raise(ReprStr(<<"R", "e", "d">>))
      ELSE IF "Green" \notin DOMAIN c THEN Raise(ReprStr(<<"G", "r", "e", "e", "n">>))
      ELSE IF "Blue" \notin DOMAIN c THEN Raise(ReprStr(<<"B", "l", "u", "e">>))
      ELSE Returned(<<"#">> \o Hex02(c.Red) \o Hex02(c.Green) \o Hex02(c.Blue))

\* apply_highlight(text, highlight_words, color): the text returned or the
\* exception raised
apply_highlight(text, highlight_words, color) ==
  IF ~Truthy(highlight_words) THEN Returned(text)
  ELSE LET Loop(hex_color) ==
             IF ~hex_color.ok THEN hex_color
             ELSE HighlightLoop(text, highlight_words.v, hex_color.value, 1)
       IN  Loop(HexColor(color))

(********************* Operations on values of any type ********************)
\* type(x).__name__
TypeName(x) ==
  CASE x.t = "None" -> <<"N", "o", "n", "e", "T", "y", "p", "e">>
    [] x.t = "int" -> <<"i", "n", "t">>
    [] x.t = "str" -> <<"s", "t", "r">>
    [] x.t = "list" -> <<"l", "i", "s", "t">>
    [] x.t = "dict" -> <<"d", "i", "c", "t">>

\* len(x)
PyLen(x) ==
  CASE x.t \in {"list", "str"} -> Returned(Len(x.v))
    [] x.t = "dict" -> Returned(Cardinality(DOMAIN x.v))
    [] x.t \in {"None", "int"} ->
         Raise(<<"o", "b", "j", "e", "c", "t", " ", "o", "f", " ", "t", "y", "p", "e", " ", "'">> \o TypeName(x) \o <<"'", " ", "h", "a", "s", " ", "n", "o", " ", "l", "e", "n", "(", ")">>)

\* `item in x` for a str item: membership in a list of str, substring of a str
PyContains(item, x) ==
  CASE x.t = "list" -> Returned(In(item, x.v))
    [] x.t = "str" -> Returned(Contains(item, x.v))
    [] x.t \in {"None", "int"} ->
         Raise(<<"a", "r", "g", "u", "m", "e", "n", "t", " ", "o", "f", " ", "t", "y", "p", "e", " ", "'">> \o TypeName(x) \o <<"'", " ", "i", "s", " ", "n", "o", "t", " ", "i", "t", "e", "r", "a", "b", "l", "e">>)

\* the items `for item in x` goes through
PyIter(x) ==
  CASE x.t = "list" -> Returned(x.v)
    [] x.t = "str" -> Returned([k \in 1..Len(x.v) |-> <<x.v[k]>>])
    [] x.t \in {"None", "int"} ->
         Raise(<<"'">> \o TypeName(x) \o <<"'", " ", "o", "b", "j", "e", "c", "t", " ", "i", "s", " ", "n", "o", "t", " ", "i", "t", "e", "r", "a", "b", "l", "e">>)

(***************************** Tool: add card ******************************)
\* the uniform error mapping
ErrorResult(error_msg) == [error |-> error_msg, success |-> FALSE]

\* RequiredFieldError checking the front only
RequiredFieldError_FrontOnly(front, back) ==
  IF front = <<>> THEN PyDict([error |-> FrontRequired]) ELSE None

\* lines 260-263: the early returns for a missing field; None when both are given
RequiredFieldError(front, back) ==
  IF front = <<>> THEN PyDict([error |-> FrontRequired])
  ELSE IF back = <<>> THEN PyDict([error |-> BackRequired])
  ELSE None

\* lines 268-271: a side is highlighted when its word list is non-empty
Highlighted(text, highlight_words, highlight_color) ==
  IF Truthy(highlight_words) THEN apply_highlight(text, highlight_words, highlight_color)
  ELSE Returned(text)

\* EnsureDeck that takes a failed deckNames for an empty list of decks
EnsureDeck_CreateOnFailure(url, api_key, deck, env) ==
  LET deck_names_response == ankiconnect_request(url, env.deckNames)
      existing_decks ==
        IF deck_names_response.ok
        THEN Get(deck_names_response.value, "result", PyList(<<>>))
        ELSE PyList(<<>>)
      listed == PyContains(deck, existing_decks)
  IN  IF listed.ok /\ ~listed.value
      THEN <<Call(api_key, "deckNames", <<>>, env.deckNames),
             Call(api_key, "createDeck", [deck |-> deck], env.createDeck)>>
      ELSE <<Call(api_key, "deckNames", <<>>, env.deckNames)>>

\* lines 274-282: the deck check; its calls, whatever they give (failures,
\* the TypeError of a result that is no container included, are caught and
\* logged, nothing of it is used later)
EnsureDeck(url, api_key, deck, env) ==
  LET deck_names_response == ankiconnect_request(url, env.deckNames)
      first == <<Call(api_key, "deckNames", <<>>, env.deckNames)>>
  IN  IF ~deck_names_response.ok THEN first
      ELSE LET existing_decks == Get(deck_names_response.value, "result", PyList(<<>>))
               listed == PyContains(deck, existing_decks)
           IN  IF listed.ok /\ ~listed.value
               THEN first \o <<Call(api_key, "createDeck", [deck |-> deck], env.createDeck)>>
               ELSE first

\* CheckModel that only logs a missing model and goes on
CheckModel_LogOnly(url, api_key, model, env) == None

\* lines 286-295: the model check; None when card creation goes on, else the
\* error mapping returned at line 290
CheckModel(url, api_key, model, env) ==
  LET model_names_response == ankiconnect_request(url, env.modelNames)
  IN  IF ~model_names_response.ok THEN None
      ELSE LET available_models == Get(model_names_response.value, "result", PyList(<<>>))
               listed == PyContains(model, available_models)
           IN  IF listed.ok /\ ~listed.value
               THEN PyDict(ErrorResult(
                      <<"M", "o", "d", "e", "l", " ", "'">> \o model
                        \o <<"'", " ", "n", "o", "t", " ", "f", "o", "u", "n", "d", ".", " ",
                             "A", "v", "a", "i", "l", "a", "b", "l", "e", " ",
                             "m", "o", "d", "e", "l", "s", ":", " ">>
                        \o Format(available_models)))
               ELSE None

\* line 304
TagList(tags) == IF Strip(tags) # <<>> THEN Split(Strip(tags)) ELSE <<>>

\* lines 298-314
NoteParams(front, back, deck, model, tags) ==
  [note |-> [deckName |-> deck, modelName |-> model,
             fields |-> [Front |-> front, Back |-> back],
             tags |-> TagList(tags)]]

\* lines 339-348: the message of the error mapping for a raised exception
CleanErrorMessage(error_msg) ==
  IF Contains(FailedToConnect, error_msg) THEN FailedToConnect \o MakeSureAnkiIsRunning
  ELSE IF Contains(DuplicateWord, Lower(error_msg)) THEN DuplicateCard
  ELSE IF error_msg = <<>> \/ Strip(error_msg) = <<>> THEN UnknownAddError
  ELSE error_msg

\* lines 320-331
CardAdded(note_id, front, back, deck, model, tags, highlight_front, highlight_back) ==
  [success |-> TRUE,
   note_id |-> note_id,
   front |-> front,
   back |-> back,
   deck |-> deck,
   model |-> model,
   tags |-> tags,
   highlighted_words_front |-> IF Truthy(highlight_front) THEN highlight_front.v ELSE <<>>,
   highlighted_words_back |-> IF Truthy(highlight_back) THEN highlight_back.v ELSE <<>>,
   message |-> <<"S", "u", "c", "c", "e", "s", "s", "f", "u", "l", "l", "y", " ",
                 "a", "d", "d", "e", "d", " ", "c", "a", "r", "d", " ", "t", "o", " ",
                 "d", "e", "c", "k", " ", "'">> \o deck \o <<"'">>]

\* AddNote without the test of note_id at line 319
AddNote_NoIdCheck(url, api_key, front, back, deck, model, tags, highlight_front, highlight_back, env) ==
  LET response == ankiconnect_request(url, env.addNote)
  IN  IF ~response.ok THEN ErrorResult(CleanErrorMessage(response.exc))
      ELSE CardAdded(Get(response.value, "result", None), front, back, deck, model, tags,
                     highlight_front, highlight_back)

\* lines 316-336 and 338-353: the addNote call and the mapping returned for it
AddNote(url, api_key, front, back, deck, model, tags, highlight_front, highlight_back, env) ==
  LET response == ankiconnect_request(url, env.addNote)
  IN  IF ~response.ok THEN ErrorResult(CleanErrorMessage(response.exc))
      ELSE LET note_id == Get(response.value, "result", None)
           IN  IF Truthy(note_id)
               THEN CardAdded(note_id, front, back, deck, model, tags,
                              highlight_front, highlight_back)
               ELSE ErrorResult(NoNoteId)

\* add_anki_card: the mapping returned and the remote calls issued, env giving
\* what each remote action answers
add_anki_card(url, api_key, a, env) ==
  LET missing == RequiredFieldError(a.front, a.back)
      \* lines 273-336, front and back being the texts after highlighting
      Add(front, back) ==
        LET deck_calls == EnsureDeck(url, api_key, a.deck, env)
            rejected == CheckModel(url, api_key, a.model, env)
            model_calls == deck_calls \o <<Call(api_key, "modelNames", <<>>, env.modelNames)>>
        IN  IF rejected.t # "None" THEN [result |-> rejected.v, calls |-> model_calls]
            ELSE [result |-> AddNote(url, api_key, front, back, a.deck, a.model, a.tags,
                                     a.highlight_front, a.highlight_back, env),
                  calls |-> model_calls
                    \o <<Call(api_key, "addNote",
                              NoteParams(front, back, a.deck, a.model, a.tags),
                              env.addNote)>>]
      \* lines 268-271: an exception of apply_highlight goes to the handler of
      \* line 338 before any remote call
      Highlight(highlighted_front, highlighted_back) ==
        IF ~highlighted_front.ok
        THEN [result |-> ErrorResult(CleanErrorMessage(highlighted_front.exc)),
              calls |-> <<>>]
        ELSE IF ~highlighted_back.ok
        THEN [result |-> ErrorResult(CleanErrorMessage(highlighted_back.exc)),
              calls |-> <<>>]
        ELSE Add(highlighted_front.value, highlighted_back.value)
  IN  IF missing.t # "None" THEN [result |-> missing.v, calls |-> <<>>]
      ELSE Highlight(Highlighted(a.front, a.highlight_front, a.highlight_color),
                     Highlighted(a.back, a.highlight_back, a.highlight_color))

(**************************** Tool: list decks *****************************)
\* lines 401-405, 432-436, 491-495: str(e) or <fallback>, then the connectivity hint
ListErrorMessage(e, fallback) ==
  LET error_msg == IF e # <<>> THEN e ELSE fallback
  IN  IF Contains(FailedToConnect, error_msg) THEN FailedToConnect \o MakeSureAnkiIsRunning
      ELSE error_msg

\* f'"deck:{deck_name}"'
DeckQuery(deck_name) == <<"\"", "d", "e", "c", "k", ":">> \o deck_name \o <<"\"">>

UnknownStats(deck_name) ==
  [name |-> deck_name, card_count |-> PyStr(Unknown), note_count |-> PyStr(Unknown)]

\* DeckStats with one try block per query: a failed findNotes leaves the card count
DeckStats_PerQuery(url, api_key, deck_name, env) ==
  LET query == DeckQuery(deck_name)
      cards_call == Call(api_key, "findCards", [query |-> query], env.findCards[query])
      notes_call == Call(api_key, "findNotes", [query |-> query], env.findNotes[query])
      deck_cards_response == ankiconnect_request(url, env.findCards[query])
      deck_notes_response == ankiconnect_request(url, env.findNotes[query])
      Count(response) ==
        IF response.ok /\ PyLen(Get(response.value, "result", PyList(<<>>))).ok
        THEN PyInt(PyLen(Get(response.value, "result", PyList(<<>>))).value)
        ELSE PyStr(Unknown)
  IN  [entry |->
         [name |-> deck_name,
          card_count |-> Count(deck_cards_response),
          note_count |-> Count(deck_notes_response)],
       calls |-> <<cards_call, notes_call>>]

\* lines 372-391: the entry of one deck and the calls made for it
DeckStats(url, api_key, deck_name, env) ==
  LET query == DeckQuery(deck_name)
      cards_call == Call(api_key, "findCards", [query |-> query], env.findCards[query])
      notes_call == Call(api_key, "findNotes", [query |-> query], env.findNotes[query])
      deck_cards_response == ankiconnect_request(url, env.findCards[query])
      deck_notes_response == ankiconnect_request(url, env.findNotes[query])
      card_count == PyLen(Get(deck_cards_response.value, "result", PyList(<<>>)))
      note_count == PyLen(Get(deck_notes_response.value, "result", PyList(<<>>)))
  IN  IF ~deck_cards_response.ok
      THEN [entry |-> UnknownStats(deck_name), calls |-> <<cards_call>>]
      ELSE IF ~deck_notes_response.ok \/ ~card_count.ok \/ ~note_count.ok
      THEN [entry |-> UnknownStats(deck_name), calls |-> <<cards_call, notes_call>>]
      ELSE [entry |->
              [name |-> deck_name,
               card_count |-> PyInt(card_count.value),
               note_count |-> PyInt(note_count.value)],
            calls |-> <<cards_call, notes_call>>]

\* the calls of the loop at line 371 for decks[k..]
RECURSIVE StatsCalls(_, _, _, _, _)
StatsCalls(url, api_key, decks, env, k) ==
  IF k > Len(decks) THEN <<>>
  ELSE DeckStats(url, api_key, decks[k], env).calls
         \o StatsCalls(url, api_key, decks, env, k + 1)

\* f"Found {len(decks)} available decks"
FoundMessage(n, what) == <<"F", "o", "u", "n", "d", " ">> \o IntToStr(n) \o what

list_anki_decks(url, api_key, env) ==
  LET deck_names_response == ankiconnect_request(url, env.deckNames)
      first == <<Call(api_key, "deckNames", <<>>, env.deckNames)>>
  IN  IF ~deck_names_response.ok
      THEN [result |-> ErrorResult(ListErrorMessage(deck_names_response.exc,
                                                    UnknownDecksError)),
            calls |-> first]
      ELSE LET decks == Get(deck_names_response.value, "result", PyList(<<>>))
               names == PyIter(decks)
           IN  IF ~names.ok
               THEN [result |-> ErrorResult(ListErrorMessage(names.exc, UnknownDecksError)),
                     calls |-> first]
               ELSE [result |->
                       [decks |-> decks.v,
                        deck_count |-> Len(decks.v),
                        deck_details |->
                          [deck_name \in {names.value[k] : k \in 1..Len(names.value)} |->
                             DeckStats(url, api_key, deck_name, env).entry],
                        message |->
                          FoundMessage(Len(decks.v),
                            <<" ", "a", "v", "a", "i", "l", "a", "b", "l", "e", " ",
                              "d", "e", "c", "k", "s">>)],
                     calls |-> first \o StatsCalls(url, api_key, names.value, env, 1)]

(**************************** Tool: list models ****************************)
list_anki_models(url, api_key, env) ==
  LET model_names_response == ankiconnect_request(url, env.modelNames)
      first == <<Call(api_key, "modelNames", <<>>, env.modelNames)>>
  IN  IF ~model_names_response.ok
      THEN [result |-> ErrorResult(ListErrorMessage(model_names_response.exc,
                                                    UnknownModelsError)),
            calls |-> first]
      ELSE LET models == Get(model_names_response.value, "result", PyList(<<>>))
               model_count == PyLen(models)
           IN  IF ~model_count.ok
               THEN [result |-> ErrorResult(ListErrorMessage(model_count.exc,
                                                             UnknownModelsError)),
                     calls |-> first]
               ELSE [result |->
                       [models |-> models.v,
                        model_count |-> model_count.value,
                        message |->
                          FoundMessage(model_count.value,
                            <<" ", "a", "v", "a", "i", "l", "a", "b", "l", "e", " ",
                              "n", "o", "t", "e", " ", "t", "y", "p", "e", "s", "/",
                              "m", "o", "d", "e", "l", "s">>)],
                     calls |-> first]

(************************* Tool: collection info ***************************)
Star == <<"*">>

\* TotalCounts that sets total_cards before it asks for the notes
TotalCounts_CardsFirst(url, api_key, env) ==
  LET cards_call == Call(api_key, "findCards", [query |-> <<"*">>], env.findCards[<<"*">>])
      notes_call == Call(api_key, "findNotes", [query |-> <<"*">>], env.findNotes[<<"*">>])
      all_cards_response == ankiconnect_request(url, env.findCards[<<"*">>])
      all_notes_response == ankiconnect_request(url, env.findNotes[<<"*">>])
      Total(response) ==
        IF "result" \in DOMAIN response.value /\ PyLen(response.value.result).ok
        THEN PyInt(PyLen(response.value.result).value) ELSE PyStr(Unknown)
  IN  IF ~all_cards_response.ok
      THEN [totals |-> [total_cards |-> PyStr(Unknown), total_notes |-> PyStr(Unknown)],
            calls |-> <<cards_call>>]
      ELSE IF ~all_notes_response.ok
      THEN [totals |-> [total_cards |-> Total(all_cards_response),
                        total_notes |-> PyStr(Unknown)],
            calls |-> <<cards_call, notes_call>>]
      ELSE [totals |->
              [total_cards |-> Total(all_cards_response),
               total_notes |-> Total(all_notes_response)],
            calls |-> <<cards_call, notes_call>>]

\* lines 465-478: the two totals and the calls made for them
TotalCounts(url, api_key, env) ==
  LET cards_call == Call(api_key, "findCards", [query |-> Star], env.findCards[Star])
      notes_call == Call(api_key, "findNotes", [query |-> Star], env.findNotes[Star])
      all_cards_response == ankiconnect_request(url, env.findCards[Star])
      all_notes_response == ankiconnect_request(url, env.findNotes[Star])
      unknown == [total_cards |-> PyStr(Unknown), total_notes |-> PyStr(Unknown)]
      \* lines 473-476: a total is set when its response has a result; the
      \* TypeError of len() leaves the try block with the totals set so far
      cards_len == PyLen(all_cards_response.value.result)
      notes_len == PyLen(all_notes_response.value.result)
      total_cards ==
        IF "result" \in DOMAIN all_cards_response.value
        THEN PyInt(cards_len.value) ELSE PyStr(Unknown)
  IN  IF ~all_cards_response.ok THEN [totals |-> unknown, calls |-> <<cards_call>>]
      ELSE IF ~all_notes_response.ok
      THEN [totals |-> unknown, calls |-> <<cards_call, notes_call>>]
      ELSE IF "result" \in DOMAIN all_cards_response.value /\ ~cards_len.ok
      THEN [totals |-> unknown, calls |-> <<cards_call, notes_call>>]
      ELSE [totals |->
              [total_cards |-> total_cards,
               total_notes |->
                 IF "result" \in DOMAIN all_notes_response.value /\ notes_len.ok
                 THEN PyInt(notes_len.value) ELSE PyStr(Unknown)],
            calls |-> <<cards_call, notes_call>>]

\* f"Anki collection contains {total_notes} notes, {total_cards} cards across
\* {total_decks} decks"
InfoMessage(total_notes, total_cards, total_decks) ==
  <<"A", "n", "k", "i", " ", "c", "o", "l", "l", "e", "c", "t", "i", "o", "n", " ",
    "c", "o", "n", "t", "a", "i", "n", "s", " ">> \o Format(total_notes)
    \o <<" ", "n", "o", "t", "e", "s", ",", " ">> \o Format(total_cards)
    \o <<" ", "c", "a", "r", "d", "s", " ", "a", "c", "r", "o", "s", "s", " ">>
    \o IntToStr(total_decks) \o <<" ", "d", "e", "c", "k", "s">>

get_anki_info(url, api_key, env) ==
  LET deck_names_response == ankiconnect_request(url, env.deckNames)
      model_names_response == ankiconnect_request(url, env.modelNames)
      deck_call == Call(api_key, "deckNames", <<>>, env.deckNames)
      model_call == Call(api_key, "modelNames", <<>>, env.modelNames)
  IN  IF ~deck_names_response.ok
      THEN [result |-> ErrorResult(ListErrorMessage(deck_names_response.exc,
                                                    UnknownInfoError)),
            calls |-> <<deck_call>>]
      ELSE IF ~model_names_response.ok
      THEN [result |-> ErrorResult(ListErrorMessage(model_names_response.exc,
                                                    UnknownInfoError)),
            calls |-> <<deck_call, model_call>>]
      ELSE LET available_decks == Get(deck_names_response.value, "result", PyList(<<>>))
               available_models == Get(model_names_response.value, "result", PyList(<<>>))
               total_decks == PyLen(available_decks)
               total_models == PyLen(available_models)
               counts == TotalCounts(url, api_key, env)
           IN  IF ~total_decks.ok
               THEN [result |-> ErrorResult(ListErrorMessage(total_decks.exc,
                                                             UnknownInfoError)),
                     calls |-> <<deck_call, model_call>>]
               ELSE IF ~total_models.ok
               THEN [result |-> ErrorResult(ListErrorMessage(total_models.exc,
                                                             UnknownInfoError)),
                     calls |-> <<deck_call, model_call>>]
               ELSE [result |->
                       [total_notes |-> counts.totals.total_notes,
                        total_cards |-> counts.totals.total_cards,
                        total_decks |-> total_decks.value,
                        total_models |-> total_models.value,
                        available_decks |-> available_decks.v,
                        available_models |-> available_models.v,
                        message |-> InfoMessage(counts.totals.total_notes,
                                                counts.totals.total_cards,
                                                total_decks.value)],
                     calls |-> <<deck_call, model_call>> \o counts.calls]

(****************************** Remote answers *****************************)
MaxNoteId == 1
MaxCount == 1

\* {"result": value, "error": null}
OkResponse(value) == Response([result |-> value, error |-> None])
\* {"result": null, "error": message}
ErrorResponse(message) == Response([result |-> None, error |-> PyStr(message)])

\* the ways a request fails: the remote reports an error, the endpoint is
\* unreachable, the body is not JSON
Failures ==
  {ErrorResponse(CollectionUnavailable), URLError(ConnectionRefused),
   OtherException(ExpectingValue)}

DeckUniverse == {English, DeckB}
\* deck names are unique in a collection
DeckLists ==
  {<<>>} \cup {<<d>> : d \in DeckUniverse}
    \cup {<<d, e>> : <<d, e>> \in {p \in DeckUniverse \X DeckUniverse : p[1] # p[2]}}
ModelLists == {<<Basic>>, <<Basic, Cloze>>}
IdLists == {[i \in 1..n |-> i] : n \in 0..MaxCount}

\* a list of names, a null result, or a failure
DeckNamesAnswers == {OkResponse(PyList(l)) : l \in DeckLists} \cup {OkResponse(None)} \cup Failures
ModelNamesAnswers ==
  {OkResponse(PyList(l)) : l \in ModelLists} \cup {OkResponse(None)} \cup Failures
CreateDeckAnswers == {OkResponse(PyInt(1))} \cup Failures
\* a note identifier, a null result, an empty mapping, or a failure
AddNoteAnswers ==
  {OkResponse(PyInt(n)) : n \in 1..MaxNoteId}
    \cup {OkResponse(None), OkResponse(PyDict(<<>>)), ErrorResponse(DuplicateNote)}
    \cup Failures
FindAnswers ==
  {OkResponse(PyList(l)) : l \in IdLists}
    \cup {OkResponse(None), ErrorResponse(CollectionUnavailable), URLError(ConnectionRefused)}

(******************************* Tool inputs *******************************)
\* words that the replacement template of re.sub reads as escapes
BackslashOne == <<Backslash, "1">>                    \* a reference to group 1
BackslashD == <<Backslash, "d">>                      \* no escape of a template
BackslashN == <<Backslash, "n">>                      \* a newline
BackslashZero == <<Backslash, "0">>                   \* the octal escape of chr(0)
TwoBackslashes == <<Backslash, Backslash>>            \* one backslash
GroupZeroRef == <<Backslash, "g", "<", "0", ">">>     \* the whole match
NamedGroupRef == <<Backslash, "g", "<", "a", ">">>    \* a group the pattern lacks
TrailingBackslash == <<"a", Backslash>>               \* a backslash before the closing tag

\* a colour mapping that lacks two of its keys
RedOnly == PyDict([Red |-> 255])

\* a card for an existing deck and model with these highlight arguments
Card(highlight_front, highlight_back, highlight_color) ==
  [front |-> ACat, back |-> Neko, deck |-> English, model |-> Basic, tags |-> <<>>,
   highlight_front |-> highlight_front,
   highlight_back |-> highlight_back,
   highlight_color |-> highlight_color]

\* every combination of plain arguments, and the cards whose highlighting
\* raises or takes a colour of its own
AddArgs ==
  [front : {<<>>, ACat},
   back : {<<>>, Neko},
   deck : DeckUniverse,
   model : {Basic, Cloze},
   tags : {<<>>, TwoTags},
   highlight_front : {None, PyList(<<>>), PyList(<<Cat_>>)},
   highlight_back : {None, PyList(<<Neko>>)},
   highlight_color : {None}]
    \cup {Card(PyList(<<BackslashOne>>), None, None),
          Card(None, PyList(<<BackslashD>>), None),
          Card(PyList(<<Cat_>>), PyList(<<TrailingBackslash>>), None),
          Card(PyList(<<Cat_>>), None, RedOnly),
          Card(PyList(<<Cat_>>), None, PyDict([Red |-> 255, Green |-> 0, Blue |-> 10]))}

AddEnvs ==
  [deckNames : {OkResponse(PyList(<<English>>)), OkResponse(PyList(<<DeckB>>)),
                OkResponse(None)} \cup Failures,
   createDeck : CreateDeckAnswers,
   modelNames : ModelNamesAnswers,
   addNote : AddNoteAnswers]

DeckQueries == {DeckQuery(d) : d \in DeckUniverse}

ListDecksEnvs ==
  [deckNames : DeckNamesAnswers,
   findCards : [DeckQueries -> FindAnswers],
   findNotes : [DeckQueries -> FindAnswers]]

ListModelsEnvs == [modelNames : ModelNamesAnswers]

\* a response of an AnkiConnect version that answers without a result key
NoResult == Response([error |-> None])

InfoEnvs ==
  [deckNames : DeckNamesAnswers,
   modelNames : ModelNamesAnswers,
   findCards : [{Star} -> FindAnswers \cup {NoResult}],
   findNotes : [{Star} -> FindAnswers \cup {NoResult}]]

(********************************* Actions *********************************)
\* 'http://127.0.0.1:8765'
DefaultUrl ==
  <<"h", "t", "t", "p", ":", "/", "/", "1", "2", "7", ".", "0", ".", "0", ".", "1", ":", "8",
    "7", "6", "5">>

HttpScheme == <<"h", "t", "t", "p", ":", "/", "/">>
Port8765 == <<":", "8", "7", "6", "5">>
Loopback == <<"1", "2", "7", ".", "0", ".", "0", ".", "1">>

\* lines 41-45
TestUrls ==
  <<HttpScheme \o <<"h", "o", "s", "t", ".", "d", "o", "c", "k", "e", "r", ".", "i", "n", "t", "e", "r", "n", "a", "l">> \o Port8765,
    HttpScheme \o <<"1", "7", "2", ".", "1", "7", ".", "0", ".", "1">> \o Port8765,
    HttpScheme \o <<"l", "o", "c", "a", "l", "h", "o", "s", "t">> \o Port8765>>

\* s.startswith(prefix)
StartsWith(s, prefix) == OccursAt(prefix, s, 1)

\* lines 50-56 from the k-th line of /etc/resolv.conf on: the address of the
\* first nameserver line that does not name the loopback, None when there is
\* none or when a nameserver line without an address ends the reading
\* (IndexError, caught at line 57)
RECURSIVE NameserverFrom(_, _)
NameserverFrom(lines, k) ==
  IF k > Len(lines) THEN None
  ELSE IF ~StartsWith(lines[k], <<"n", "a", "m", "e", "s", "e", "r", "v", "e", "r">>) THEN NameserverFrom(lines, k + 1)
  ELSE LET words == Split(lines[k])
       IN  IF Len(words) < 2 THEN None
           ELSE IF words[2] # Loopback THEN PyStr(words[2])
           ELSE NameserverFrom(lines, k + 1)

\* lines 62-66: the address after the first 'via' of the output of
\* `ip route show default`, None when the command fails or names none
Gateway(ip_route) ==
  IF ip_route.t = "None" THEN None
  ELSE LET stdout == ip_route.v.stdout
           via == <<"v", "i", "a">>
           at == {i \in 1..Len(stdout) : OccursAt(via, stdout, i)}
       IN  IF ip_route.v.returncode # 0 \/ at = {} THEN None
           ELSE LET first == Min(at)
                    later == {i \in at : i >= first + 3}
                    piece == SubSeq(stdout, first + 3,
                                    IF later = {} THEN Len(stdout) ELSE Min(later) - 1)
                    words == Split(piece)
                IN  IF words = <<>> THEN None ELSE PyStr(words[1])

\* s.replace(old, "") from index i on, old not empty
RECURSIVE RemoveAllFrom(_, _, _)
RemoveAllFrom(s, old, i) ==
  LET at == {j \in i..Len(s) : OccursAt(old, s, j)}
  IN  IF at = {} THEN SubSeq(s, i, Len(s))
      ELSE SubSeq(s, i, Min(at) - 1) \o RemoveAllFrom(s, old, Min(at) + Len(old))

\* url.replace("http://", "").split(":")[0] (line 76)
HostOf(url) ==
  LET rest == RemoveAllFrom(url, HttpScheme, 1)
      colons == {k \in 1..Len(rest) : rest[k] = ":"}
  IN  IF colons = {} THEN rest ELSE SubSeq(rest, 1, Min(colons) - 1)

\* get_ankiconnect_url() on a host: its environment, the lines of its
\* /etc/resolv.conf (None when the file cannot be read), the outcome of
\* `ip route show default` (None when it cannot be run) and the hosts that
\* accept a connection on port 8765
get_ankiconnect_url(host) ==
  IF "ANKICONNECT_URL" \in DOMAIN host.environ THEN host.environ.ANKICONNECT_URL
  ELSE IF "WSL_DISTRO_NAME" \in DOMAIN host.environ \/ "WSL_INTEROP" \in DOMAIN host.environ
  THEN LET nameserver ==
             IF host.resolv_conf.t = "None" THEN None
             ELSE NameserverFrom(host.resolv_conf.v, 1)
           gateway == Gateway(host.ip_route)
           test_urls ==
             (IF gateway.t = "None" THEN <<>> ELSE <<HttpScheme \o gateway.v \o Port8765>>)
               \o (IF nameserver.t = "None" THEN <<>>
                   ELSE <<HttpScheme \o nameserver.v \o Port8765>>)
               \o TestUrls
           found == {k \in 1..Len(test_urls) : HostOf(test_urls[k]) \in host.accepting}
       IN  IF found = {} THEN DefaultUrl ELSE test_urls[Min(found)]
  ELSE DefaultUrl

\* a host outside WSL2 with nothing configured
PlainHost ==
  [environ |-> <<>>, resolv_conf |-> None, ip_route |-> None, accepting |-> {}]

\* a WSL2 host with an API key, whose Windows side answers at the gateway
\* address that /etc/resolv.conf and `ip route` both name
WslHost ==
  [environ |-> [WSL_DISTRO_NAME |-> <<"U", "b", "u", "n", "t", "u">>,
                ANKICONNECT_API_KEY |-> <<"s", "e", "c", "r", "e", "t">>],
   resolv_conf |-> PyList(<<<<"#", " ", "g", "e", "n", "e", "r", "a", "t", "e", "d", Newline>>,
                           <<"n", "a", "m", "e", "s", "e", "r", "v", "e", "r", " ", "1", "7", "2", ".", "2", "9", ".", "0", ".", "1", Newline>>>>),
   ip_route |-> PyDict([returncode |-> 0,
                        stdout |-> <<"d", "e", "f", "a", "u", "l", "t", " ", "v", "i", "a", " ", "1", "7", "2", ".", "2", "9", ".", "0", ".", "1", " ", "d", "e", "v", " ", "e", "t", "h", "0", Newline>>]),
   accepting |-> {<<"1", "7", "2", ".", "2", "9", ".", "0", ".", "1">>}]

\* the hosts the tools are run on
ToolHosts == <<PlainHost, WslHost>>

Idle ==
  /\ phase = "idle"
  /\ tool = "none"
  /\ args = <<>>
  /\ calls = <<>>
  /\ result = <<>>

\* the process after the import of server.py on one of the hosts
Started(hosts) ==
  /\ \E h \in DOMAIN hosts :
       /\ environ = hosts[h].environ
       /\ ANKICONNECT_URL = get_ankiconnect_url(hosts[h])
  /\ Idle

Init == Started(ToolHosts)

\* one tool call: what it returns and the remote calls it makes
Reply(name, a, r) ==
  /\ tool' = name
  /\ args' = a
  /\ calls' = r.calls
  /\ result' = r.result
  /\ phase' = "returned"
  /\ UNCHANGED <<environ, ANKICONNECT_URL>>

CallAddAnkiCard ==
  /\ phase = "idle"
  /\ \E a \in AddArgs, env \in AddEnvs :
       Reply("add_anki_card", a, add_anki_card(ANKICONNECT_URL, ApiKey(environ), a, env))

CallListAnkiDecks ==
  /\ phase = "idle"
  /\ \E env \in ListDecksEnvs :
       Reply("list_anki_decks", <<>>, list_anki_decks(ANKICONNECT_URL, ApiKey(environ), env))

CallListAnkiModels ==
  /\ phase = "idle"
  /\ \E env \in ListModelsEnvs :
       Reply("list_anki_models", <<>>, list_anki_models(ANKICONNECT_URL, ApiKey(environ), env))

CallGetAnkiInfo ==
  /\ phase = "idle"
  /\ \E env \in InfoEnvs :
       Reply("get_anki_info", <<>>, get_anki_info(ANKICONNECT_URL, ApiKey(environ), env))

\* the caller takes the returned mapping; the server waits for the next call
Return ==
  /\ phase = "returned"
  /\ phase' = "idle"
  /\ tool' = "none"
  /\ args' = <<>>
  /\ calls' = <<>>
  /\ result' = <<>>
  /\ UNCHANGED <<environ, ANKICONNECT_URL>>

Next ==
  \/ CallAddAnkiCard
  \/ CallListAnkiDecks
  \/ CallListAnkiModels
  \/ CallGetAnkiInfo
  \/ Return

Spec == Init /\ [][Next]_vars

(********************** Highlighting specification ***********************)
MaxTextLen == 4
MaxWordLen == 2

HLAlphabet == {"a", "A", " ", "U+732B"}

SeqsUpTo(S, n) == UNION {[1..k -> S] : k \in 0..n}

HLTexts == SeqsUpTo(HLAlphabet, MaxTextLen)
HLWords == SeqsUpTo(HLAlphabet, MaxWordLen)
\* no list, the empty list, every list of one word, and the lists of two
\* one-character words
HLWordLists ==
  {None} \cup {PyList(<<>>)} \cup {PyList(<<word>>) : word \in HLWords}
    \cup {PyList(<<<<c>>, <<d>>>>) : <<c, d>> \in HLAlphabet \X HLAlphabet}
HLColors == {None, PyDict([Red |-> 255, Green |-> 0, Blue |-> 10])}

EscapeWords ==
  {BackslashOne, BackslashD, BackslashN, BackslashZero, TwoBackslashes, GroupZeroRef,
   NamedGroupRef, TrailingBackslash}
\* texts in which an escape word stands between word boundaries
EscapeTexts ==
  UNION {{<<"a">> \o word, <<"a">> \o word \o <<"a">>, word \o <<"a">>} :
           word \in EscapeWords}
    \cup {<<"A", Backslash, "N">>}
\* colour mappings that lack a key, or hold values outside 0..255
OddColors ==
  {RedOnly, PyDict([Red |-> 255, Green |-> 0]), PyDict([Green |-> 0, Blue |-> 1]),
   PyDict([Red |-> 0 - 1, Green |-> 256, Blue |-> 7])}

\* every combination of the plain texts, word lists and colours, the escape
\* words on the texts that hold them, and the odd colours
HLInputs ==
  (HLTexts \X HLWordLists \X HLColors)
    \cup (EscapeTexts \X {PyList(<<word>>) : word \in EscapeWords} \X {None})
    \cup ({<<>>, <<"a">>} \X {None, PyList(<<>>), PyList(<< <<"a">> >>)} \X OddColors)

CallApplyHighlight ==
  /\ phase = "idle"
  /\ \E input \in HLInputs :
       Reply("apply_highlight",
             [text |-> input[1], highlight_words |-> input[2], color |-> input[3]],
             [result |-> apply_highlight(input[1], input[2], input[3]), calls |-> <<>>])

NextHL == CallApplyHighlight \/ Return

\* highlighting does not look at the host
InitHL == Started(<<PlainHost>>)

SpecHL == InitHL /\ [][NextHL]_vars

(************************ Transport specification ************************)
\* a host with the endpoint set in the environment, and an empty API key
OverrideHost ==
  [environ |-> [ANKICONNECT_URL |-> <<"h", "t", "t", "p", ":", "/", "/", "1", "0", ".", "1", ".", "2", ".", "3", ":", "9">>,
                WSL_DISTRO_NAME |-> <<"U", "b", "u", "n", "t", "u">>,
                ANKICONNECT_API_KEY |-> <<>>],
   resolv_conf |-> None, ip_route |-> None, accepting |-> {<<"l", "o", "c", "a", "l", "h", "o", "s", "t">>}]

\* a WSL2 host whose resolv.conf names the loopback and then a nameserver
\* line without an address, whose `ip route` fails, and where Anki answers on
\* localhost
WslLocalhostHost ==
  [environ |-> [WSL_INTEROP |-> <<"/", "r", "u", "n", "/", "W", "S", "L", "/", "1", "_", "i", "n", "t", "e", "r", "o", "p">>],
   resolv_conf |-> PyList(<<<<"n", "a", "m", "e", "s", "e", "r", "v", "e", "r", " ", "1", "2", "7", ".", "0", ".", "0", ".", "1", Newline>>,
                           <<"n", "a", "m", "e", "s", "e", "r", "v", "e", "r", Newline>>,
                           <<"n", "a", "m", "e", "s", "e", "r", "v", "e", "r", " ", "1", "0", ".", "0", ".", "0", ".", "1", Newline>>>>),
   ip_route |-> PyDict([returncode |-> 1, stdout |-> <<>>]),
   accepting |-> {<<"l", "o", "c", "a", "l", "h", "o", "s", "t">>, <<"1", "0", ".", "0", ".", "0", ".", "1">>}]

\* a WSL2 host whose resolv.conf cannot be read, whose `ip route` prints a
\* route without an address, and where Anki answers on the Docker bridge and
\* on localhost
WslBridgeHost ==
  [environ |-> [WSL_DISTRO_NAME |-> <<"U", "b", "u", "n", "t", "u">>],
   resolv_conf |-> None,
   ip_route |-> PyDict([returncode |-> 0, stdout |-> <<"d", "e", "f", "a", "u", "l", "t", " ", "v", "i", "a">>]),
   accepting |-> {<<"1", "7", "2", ".", "1", "7", ".", "0", ".", "1">>, <<"l", "o", "c", "a", "l", "h", "o", "s", "t">>}]

\* a WSL2 host with a nameserver and a default route, none of whose
\* candidates answers
WslUnreachableHost ==
  [environ |-> [WSL_DISTRO_NAME |-> <<"U", "b", "u", "n", "t", "u">>],
   resolv_conf |-> PyList(<<<<"n", "a", "m", "e", "s", "e", "r", "v", "e", "r", " ", "1", "7", "2", ".", "2", "9", ".", "0", ".", "1", Newline>>>>),
   ip_route |-> PyDict([returncode |-> 0,
                        stdout |-> <<"d", "e", "f", "a", "u", "l", "t", " ", "v", "i", "a", " ", "1", "7", "2", ".", "2", "9", ".", "0", ".", "2", " ", "d", "e", "v", " ", "e", "t", "h", "0", Newline>>]),
   accepting |-> {}]

TransportHosts ==
  <<PlainHost, OverrideHost, WslHost, WslLocalhostHost, WslBridgeHost, WslUnreachableHost>>

\* the requests the tools send: an action alone (params is None, sent as {}) ...
RequestsWithoutParams ==
  {[action |-> a, params |-> <<>>] : a \in {"deckNames", "modelNames"}}

\* ... or an action with its params
RequestsWithParams ==
  {[action |-> "createDeck", params |-> [deck |-> d]] : d \in DeckUniverse}
    \cup {[action |-> a, params |-> [query |-> q]] :
            a \in {"findCards", "findNotes"}, q \in DeckQueries \cup {Star}}

Requests == <<RequestsWithoutParams, RequestsWithParams>>

\* the error field of a parsed response: null, an empty string, an empty
\* mapping, a message
ErrorFields ==
  {None, PyStr(<<>>), PyDict(<<>>), PyStr(CollectionUnavailable), PyStr(DuplicateNote)}

\* the result field of a parsed response: null, a note id, a list of names
ResultFields == <<None, PyInt(1), PyList(<<>>), PyList(<<English>>)>>

\* an HTTP exchange that gives no response with both fields: a response without
\* them, an unreachable endpoint, a body that is not JSON
OtherWires == {NoResult, URLError(ConnectionRefused), OtherException(ExpectingValue)}

InitTransport == Started(TransportHosts)

\* one call of ankiconnect_request(action, params) and the exchange it makes
Exchange(request, wire) ==
  Reply("ankiconnect_request", request,
        [result |-> ankiconnect_request(ANKICONNECT_URL, wire),
         calls |-> <<Call(ApiKey(environ), request.action, request.params, wire)>>])

CallAnkiconnectRequest ==
  /\ phase = "idle"
  /\ \E k \in DOMAIN Requests : \E request \in Requests[k] :
       \/ \E i \in DOMAIN ResultFields, e \in ErrorFields :
            Exchange(request, Response([result |-> ResultFields[i], error |-> e]))
       \/ \E wire \in OtherWires : Exchange(request, wire)

NextTransport == CallAnkiconnectRequest \/ Return

SpecTransport == InitTransport /\ [][NextTransport]_vars
(***************************************************************************)
(*                               Properties                                *)
(***************************************************************************)
ToolNames == {"add_anki_card", "list_anki_decks", "list_anki_models", "get_anki_info"}

ToolReturned(name) == phase = "returned" /\ tool = name

\* the i-th remote call of the invocation ended in a connectivity failure
Unreachable(i) == calls[i].wire.kind = "URLError"

\* the i-th remote call of the invocation came back with a result
Succeeded(i) ==
  /\ calls[i].wire.kind = "response"
  /\ "error" \in DOMAIN calls[i].wire.data
  /\ calls[i].wire.data.error = None

\* the result of the i-th remote call, the empty list standing for a missing
\* result as in .get('result', [])
ResultOf(i) == Get(calls[i].wire.data, "result", PyList(<<>>))

\* the i-th remote call of the invocation came back with a list
GaveList(i) == Succeeded(i) /\ ResultOf(i).t = "list"

\* add_anki_card was given highlight words that make apply_highlight raise
HighlightingRaised ==
  \/ ~Highlighted(args.front, args.highlight_front, args.highlight_color).ok
  \/ ~Highlighted(args.back, args.highlight_back, args.highlight_color).ok

\* the indices of the invocation's calls of one remote action
CallsOf(action) == {i \in 1..Len(calls) : calls[i].action = action}

\* 'Failed to connect to AnkiConnect. Make sure Anki is running with AnkiConnect add-on enabled.'
ConnectivityHint ==
  <<
    "F", "a", "i", "l", "e", "d", " ", "t", "o", " ", "c", "o", "n", "n", "e", "c", "t", " ",
    "t", "o", " ", "A", "n", "k", "i", "C", "o", "n", "n", "e", "c", "t", ".", " ", "M", "a",
    "k", "e", " ", "s", "u", "r", "e", " ", "A", "n", "k", "i", " ", "i", "s", " ", "r", "u",
    "n", "n", "i", "n", "g", " ", "w", "i", "t", "h", " ", "A", "n", "k", "i", "C", "o", "n",
    "n", "e", "c", "t", " ", "a", "d", "d", "-", "o", "n", " ", "e", "n", "a", "b", "l", "e",
    "d", "."
  >>

\* C1: in an invocation of any of the four tools whose remote calls all end
\* in a connectivity failure, the mapping returned is exactly
\* {error: <connectivity hint>, success: false}.
C1_ConnectivityHint ==
  (/\ phase = "returned"
   /\ tool \in ToolNames
   /\ calls # <<>>
   /\ \A i \in 1..Len(calls) : Unreachable(i))
  => result = [error |-> ConnectivityHint, success |-> FALSE]

\* add_anki_card went through deckNames, modelNames and addNote with the
\* endpoint unreachable every time and returned the hint
C1_Witness ==
  /\ ToolReturned("add_anki_card")
  /\ Len(calls) = 3
  /\ \A i \in 1..3 : Unreachable(i)
  /\ calls[3].action = "addNote"
  /\ result = [error |-> ConnectivityHint, success |-> FALSE]

\* C2: every mapping a tool returns is a success mapping (no error key) or
\* an error mapping with exactly the keys error and success, success false.
C2_UniformResult ==
  (phase = "returned" /\ tool \in ToolNames)
  => \/ "error" \notin DOMAIN result
     \/ /\ DOMAIN result = {"error", "success"}
        /\ result.success = FALSE

\* C3: add_anki_card with an empty front, or an empty back, returns an error
\* mapping and issues no remote call.
C3_NoCallOnMissingField ==
  (ToolReturned("add_anki_card") /\ (args.front = <<>> \/ args.back = <<>>))
  => /\ "error" \in DOMAIN result
     /\ calls = <<>>

\* a call with a front and an empty back returned an error without any call
C3_Witness ==
  /\ ToolReturned("add_anki_card")
  /\ args.front # <<>>
  /\ args.back = <<>>
  /\ "error" \in DOMAIN result
  /\ calls = <<>>

\* the modelNames call of the invocation succeeded and its list lacks the
\* requested model
ModelReportedMissing ==
  \E i \in CallsOf("modelNames") :
    /\ GaveList(i)
    /\ ~In(args.model, ResultOf(i).v)

\* C4: when modelNames succeeds and the requested model is not in its list,
\* add_anki_card returns an error mapping (success false) whose message
\* names every available model, and issues no addNote.
C4_UnknownModelRejected ==
  (/\ ToolReturned("add_anki_card")
   /\ args.front # <<>>
   /\ args.back # <<>>
   /\ ModelReportedMissing)
  => /\ "error" \in DOMAIN result
     /\ "success" \in DOMAIN result
     /\ result.success = FALSE
     /\ \A i \in CallsOf("modelNames") :
          \A k \in 1..Len(ResultOf(i).v) :
            Contains(ResultOf(i).v[k], result.error)
     /\ CallsOf("addNote") = {}

\* the deck check failed (endpoint unreachable), the model list came back
\* without the requested model, and the call was rejected before addNote
C4_Witness ==
  /\ ToolReturned("add_anki_card")
  /\ Len(calls) = 2
  /\ calls[1].action = "deckNames"
  /\ Unreachable(1)
  /\ ModelReportedMissing
  /\ "error" \in DOMAIN result
  /\ Contains(Basic, result.error)
  /\ CallsOf("addNote") = {}

\* the deckNames call of the invocation succeeded and lists the target deck
DeckReportedExisting ==
  \E i \in CallsOf("deckNames") :
    GaveList(i) /\ In(args.deck, ResultOf(i).v)

\* the modelNames call of the invocation succeeded and lists the requested model
ModelReportedExisting ==
  \E i \in CallsOf("modelNames") :
    GaveList(i) /\ In(args.model, ResultOf(i).v)

\* the i-th call is an addNote that came back with a note identifier
AddNoteReturnedId(i) ==
  /\ calls[i].action = "addNote"
  /\ Succeeded(i)
  /\ calls[i].wire.data.result.t = "int"

IsSuccess == "success" \in DOMAIN result /\ result.success = TRUE

\* C5: with non-empty front and back and a deck and a model the remote
\* reports as existing, addNote is called, and when it returns a note
\* identifier add_anki_card returns success: true with that identifier and the
\* front/back text sent to the remote (the highlighted text when words are
\* given); success: true is returned only when addNote returned an identifier.
C5_SuccessEchoesNote ==
  ToolReturned("add_anki_card") =>
    /\ (/\ args.front # <<>>
        /\ args.back # <<>>
        /\ DeckReportedExisting
        /\ ModelReportedExisting)
       => /\ CallsOf("addNote") = {Len(calls)}
          /\ AddNoteReturnedId(Len(calls)) => IsSuccess
    /\ IsSuccess =>
         /\ calls # <<>>
         /\ AddNoteReturnedId(Len(calls))
         /\ result.note_id = calls[Len(calls)].wire.data.result
         /\ result.front = calls[Len(calls)].params.note.fields.Front
         /\ result.back = calls[Len(calls)].params.note.fields.Back
         /\ result.front =
              IF Truthy(args.highlight_front)
              THEN apply_highlight(args.front, args.highlight_front,
                                   args.highlight_color).value
              ELSE args.front
         /\ result.back =
              IF Truthy(args.highlight_back)
              THEN apply_highlight(args.back, args.highlight_back,
                                   args.highlight_color).value
              ELSE args.back

\* a card whose front was changed by highlighting was added to an existing
\* deck with an existing model, and the remote's identifier came back
C5_Witness ==
  /\ ToolReturned("add_anki_card")
  /\ DeckReportedExisting
  /\ ModelReportedExisting
  /\ Truthy(args.highlight_front)
  /\ IsSuccess
  /\ result.note_id = PyInt(1)
  /\ result.front # args.front
  /\ result.front = calls[Len(calls)].params.note.fields.Front

\* the deck step of the invocation failed: deckNames, or the createDeck after it
DeckStepFailed ==
  \E i \in CallsOf("deckNames") \cup CallsOf("createDeck") : ~Succeeded(i)

\* C6: in add_anki_card with non-empty front and back (and highlighting
\* done, so that the deck step is reached), createDeck is issued only after
\* a successful deckNames whose list lacks the deck; whatever the deck step
\* gives, modelNames is called next, and unless that rejects the model
\* addNote is issued exactly once, a failed deck step leaving the outcome to
\* addNote alone.
C6_DeckEnsureBestEffort ==
  (/\ ToolReturned("add_anki_card")
   /\ args.front # <<>>
   /\ args.back # <<>>
   /\ ~HighlightingRaised)
  => /\ calls[1].action = "deckNames"
     /\ CallsOf("deckNames") = {1}
     /\ CallsOf("createDeck") \subseteq {2}
     /\ CallsOf("createDeck") # {}
          => GaveList(1) /\ ~In(args.deck, ResultOf(1).v)
     /\ CallsOf("modelNames") = {2 + Cardinality(CallsOf("createDeck"))}
     /\ IF ModelReportedMissing
        THEN CallsOf("addNote") = {}
        ELSE /\ CallsOf("addNote") = {Len(calls)}
             /\ Len(calls) = 3 + Cardinality(CallsOf("createDeck"))
             /\ (DeckStepFailed /\ AddNoteReturnedId(Len(calls))) => IsSuccess

\* createDeck was issued for an absent deck and failed, and the card was
\* added all the same
C6_Witness ==
  /\ ToolReturned("add_anki_card")
  /\ Len(calls) = 4
  /\ calls[2].action = "createDeck"
  /\ ~Succeeded(2)
  /\ calls[4].action = "addNote"
  /\ IsSuccess

\* a statistics query of the invocation for this deck failed
StatsFailed(deck_name) ==
  \E i \in CallsOf("findCards") \cup CallsOf("findNotes") :
    calls[i].params.query = DeckQuery(deck_name) /\ ~Succeeded(i)

\* the number of ids the invocation's query of this action for this deck gave
CountGiven(action, deck_name) ==
  LET i == CHOOSE i \in CallsOf(action) : calls[i].params.query = DeckQuery(deck_name)
  IN  Len(ResultOf(i).v)

\* the two statistics queries of the invocation for this deck gave lists
StatsGiven(deck_name) ==
  \A i \in CallsOf("findCards") \cup CallsOf("findNotes") :
    calls[i].params.query = DeckQuery(deck_name) => GaveList(i)

\* C7: when deckNames gives the list of names, list_anki_decks returns no
\* error mapping; deck_count is the number of names, deck_details has an
\* entry per name, the entry of a deck with a failed findCards or findNotes
\* has both counts "unknown", and the entry of a deck whose queries gave
\* their lists has the two integer counts.
C7_PerDeckStatsBestEffort ==
  (ToolReturned("list_anki_decks") /\ GaveList(1))
  => LET decks == ResultOf(1).v
     IN  /\ "error" \notin DOMAIN result
         /\ result.decks = decks
         /\ result.deck_count = Len(decks)
         /\ DOMAIN result.deck_details = {decks[k] : k \in 1..Len(decks)}
         /\ \A k \in 1..Len(decks) :
              /\ StatsFailed(decks[k])
                   => result.deck_details[decks[k]] =
                        [name |-> decks[k],
                         card_count |-> PyStr(Unknown),
                         note_count |-> PyStr(Unknown)]
              /\ StatsGiven(decks[k])
                   => result.deck_details[decks[k]] =
                        [name |-> decks[k],
                         card_count |-> PyInt(CountGiven("findCards", decks[k])),
                         note_count |-> PyInt(CountGiven("findNotes", decks[k]))]

\* of two decks, B's findNotes failed after its findCards had succeeded: B
\* has both counts unknown, the other deck keeps its integer counts
C7_Witness ==
  /\ ToolReturned("list_anki_decks")
  /\ GaveList(1)
  /\ result.deck_count = 2
  /\ \E i \in CallsOf("findCards") :
       calls[i].params.query = DeckQuery(DeckB) /\ Succeeded(i)
  /\ \E i \in CallsOf("findNotes") :
       calls[i].params.query = DeckQuery(DeckB) /\ ~Succeeded(i)
  /\ result.deck_details[DeckB].card_count = PyStr(Unknown)
  /\ result.deck_details[DeckB].note_count = PyStr(Unknown)
  /\ result.deck_details[English].card_count = PyInt(1)
  /\ result.deck_details[English].note_count = PyInt(0)

\* C8: get_anki_info returns an error mapping exactly when the retrieval of
\* the deck names or of the model names fails (the call fails, or brings no
\* list); when both lists are retrieved and findCards or findNotes fails,
\* both totals are "unknown" and total_decks / total_models are the list
\* lengths.
C8_InfoCountsBestEffort ==
  ToolReturned("get_anki_info") =>
    /\ "error" \in DOMAIN result
         <=> \E i \in CallsOf("deckNames") \cup CallsOf("modelNames") : ~GaveList(i)
    /\ CallsOf("deckNames") = {1}
    /\ Succeeded(1) => CallsOf("modelNames") = {2}
    /\ (GaveList(1) /\ GaveList(2)) =>
         /\ result.total_decks = Len(ResultOf(1).v)
         /\ result.total_models = Len(ResultOf(2).v)
         /\ CallsOf("findCards") = {3}
         /\ (\E i \in CallsOf("findCards") \cup CallsOf("findNotes") : ~Succeeded(i))
              => /\ result.total_cards = PyStr(Unknown)
                 /\ result.total_notes = PyStr(Unknown)

\* the wildcard findCards succeeded, the findNotes after it failed, and the
\* info mapping has both totals unknown beside the list lengths
C8_Witness ==
  /\ ToolReturned("get_anki_info")
  /\ Len(calls) = 4
  /\ Succeeded(3)
  /\ "result" \in DOMAIN calls[3].wire.data
  /\ calls[4].action = "findNotes"
  /\ ~Succeeded(4)
  /\ "error" \notin DOMAIN result
  /\ result.total_cards = PyStr(Unknown)
  /\ result.total_notes = PyStr(Unknown)
  /\ result.total_decks = 2
  /\ result.total_models = 2

(************************ Properties of apply_highlight ********************)
\* an opening span tag, of any colour, starts at index i of s
\* the opening span tag of the colour of the call
OpenTag == SpanOpenPrefix \o HexColor(args.color).value \o SpanOpenSuffix

OpenTagLen == Len(OpenTag)

\* an opening span tag starts at index i of s
OpenTagAt(s, i) == OccursAt(OpenTag, s, i)

\* s from index i on, without its span tags
RECURSIVE StripSpansFrom(_, _)
StripSpansFrom(s, i) ==
  LET tags == {j \in i..Len(s) : OpenTagAt(s, j) \/ OccursAt(SpanClose, s, j)}
  IN  IF tags = {} THEN SubSeq(s, i, Len(s))
      ELSE LET j == CHOOSE j \in tags : \A m \in tags : j <= m
           IN  SubSeq(s, i, j - 1)
                 \o StripSpansFrom(s, j + (IF OpenTagAt(s, j) THEN OpenTagLen
                                                             ELSE Len(SpanClose)))

\* C9: the text inside an inserted span is the matched substring of the
\* input, so the output without its span tags is the input text (stated for
\* lists of one word, where no second word can fall inside the tags of the
\* first).
C9_CasingPreserved ==
  (/\ ToolReturned("apply_highlight")
   /\ Truthy(args.highlight_words)
   /\ Len(args.highlight_words.v) = 1
   /\ result.ok)
  => StripSpansFrom(result.value, 1) = args.text

\* the indices of the input text at which the output has a span opened: the
\* k-th tag of the output stands k - 1 wrappings after its place in the input
WrappedAt ==
  LET tags == {i \in 1..Len(result.value) : OpenTagAt(result.value, i)}
  IN  {i - Cardinality({j \in tags : j < i}) * (OpenTagLen + Len(SpanClose)) : i \in tags}

\* word occurs in text at index p, letter case aside
OccursIgnoringCase(word, text, p) ==
  /\ p >= 1
  /\ p + Len(word) - 1 <= Len(text)
  /\ Lower(SubSeq(text, p, p + Len(word) - 1)) = Lower(word)

\* index j of text holds a letter, a digit or an underscore
WordCharAt(text, j) == j >= 1 /\ j <= Len(text) /\ IsWordChar(text[j])

\* the occurrence of word at p has a word boundary on each side
Delimited(word, text, p) ==
  /\ WordCharAt(text, p - 1) # WordCharAt(text, p)
  /\ WordCharAt(text, p + Len(word) - 1) # WordCharAt(text, p + Len(word))

AsciiOnly(word) == \A k \in 1..Len(word) : ord(word[k]) <= 127

\* an occurrence the rule of the word selects: any occurrence of a word with
\* a non-ASCII character, a delimited occurrence of an ASCII word
Selected(word, text, p) ==
  /\ OccursIgnoringCase(word, text, p)
  /\ AsciiOnly(word) => Delimited(word, text, p)

\* the word has no backslash, so that the replacement template holds it as
\* it is written
Verbatim(word) == \A k \in 1..Len(word) : word[k] # Backslash

\* C10: without words the text comes back unchanged; for one word (written
\* without a backslash, and a colour with its three keys), a span is opened
\* only at selected occurrences (delimited by word boundaries for an ASCII
\* word, any occurrence for a word with a non-ASCII character), and every
\* selected occurrence is wrapped unless it overlaps a wrapped one before it.
C10_BoundaryRule ==
  ToolReturned("apply_highlight") =>
    /\ ~Truthy(args.highlight_words) => result = Returned(args.text)
    /\ (/\ Truthy(args.highlight_words)
        /\ Len(args.highlight_words.v) = 1
        /\ args.highlight_words.v[1] # <<>>
        /\ Verbatim(args.highlight_words.v[1])
        /\ HexColor(args.color).ok)
       => LET word == args.highlight_words.v[1]
              text == args.text
          IN  /\ result.ok
              /\ Len(result.value)
                   = Len(text) + Cardinality(WrappedAt) * (OpenTagLen + Len(SpanClose))
              /\ \A p \in WrappedAt : Selected(word, text, p)
              /\ \A p \in 1..Len(text) :
                   Selected(word, text, p)
                   => \/ p \in WrappedAt
                      \/ \E q \in WrappedAt : q < p /\ p < q + Len(word)

\* "a" in "aA a": the occurrences inside "aA" are left alone, the last one
\* is wrapped
C10_Witness ==
  /\ ToolReturned("apply_highlight")
  /\ args.text = <<"a", "A", " ", "a">>
  /\ args.highlight_words = PyList(<< <<"a">> >>)
  /\ WrappedAt = {4}

(********************* Properties of ankiconnect_request *******************)
\* the error field of the response the call got, None when the key is absent
ErrorField == Get(calls[1].wire.data, "error", None)

\* C11: ankiconnect_request raises a remote-reported failure carrying the
\* remote's message whenever the error field of the response is not null
\* (an empty string included) and returns the response mapping only when it
\* is null; an unreachable endpoint raises a failure that names the endpoint
\* and the cause and is not wrapped as a remote-reported failure.
C11_TransportFailures ==
  ToolReturned("ankiconnect_request") =>
    LET wire == calls[1].wire
    IN  /\ (wire.kind = "response" /\ ErrorField.t # "None")
           => /\ ~result.ok
              /\ Contains(AnkiConnectErrorPrefix \o Format(ErrorField), result.exc)
        /\ result.ok
           => /\ wire.kind = "response"
              /\ ErrorField.t = "None"
              /\ result.value = wire.data
        /\ wire.kind = "URLError"
           => /\ ~result.ok
              /\ Contains(FailedToConnect, result.exc)
              /\ Contains(ANKICONNECT_URL, result.exc)
              /\ Contains(wire.text, result.exc)
              /\ ~Contains(AnkiConnectErrorPrefix, result.exc)
=============================================================================
